---- MODULE Spec2Model ----
(***************************************************************************)
(* Model of photo-server (src/src/main.rs, src/src/server.rs).             *)
(*                                                                         *)
(* File names and URL segments are sequences of byte values.  The          *)
(* document tree is read-only; the thumbnail tree is the only state the    *)
(* handlers change.  PhotoServer::thumb is split at its system calls so    *)
(* that several requests for one thumbnail can interleave; every other     *)
(* handler only reads and is one step.                                     *)
(***************************************************************************)
EXTENDS Integers, Sequences, FiniteSets, TLC

(***************************************************************************)
(* Bounds                                                                  *)
(***************************************************************************)
\* Number of handle_request calls that may be in progress at once.
NWorkers == 2
\* Longest name drawn for the validate_name / remove_extension checks.
MaxNameLen == 2
\* Most key=value pairs in a query string drawn for the Params check.
MaxQuery == 2

Workers == 1..NWorkers

(***************************************************************************)
(* Byte strings                                                            *)
(***************************************************************************)
Byte == 0..255

\* The literals of the source, as bytes.
Str_jpg == <<106, 112, 103>>
Str_html == <<104, 116, 109, 108>>
Str_thumb == <<116, 104, 117, 109, 98>>
Str_README_txt == <<82, 69, 65, 68, 77, 69, 46, 116, 120, 116>>

\* u8::to_ascii_lowercase, as used by str::eq_ignore_ascii_case.
ToAsciiLower(b) == IF b >= 65 /\ b <= 90 THEN b + 32 ELSE b

\* (variant: the extension compared byte for byte)
EqExactCase(s, t) == s = t

EqIgnoreAsciiCase(s, t) ==
    /\ Len(s) = Len(t)
    /\ \A i \in 1..Len(s) : ToAsciiLower(s[i]) = ToAsciiLower(t[i])

\* Option<T>
None == <<>>
Some(x) == <<x>>
IsSome(o) == Len(o) = 1
Unwrap(o) == o[1]

\* remove_extension("foo.BAR", "bar") = Some("foo").  Names here are ASCII,
\* so split_at_checked succeeds whenever the index is in range.
remove_extension(filename, extension) ==
    IF Len(filename) < 1 + Len(extension)
    THEN None
    ELSE LET index == Len(filename) - (1 + Len(extension))
             ret == SubSeq(filename, 1, index)
             tail == SubSeq(filename, index + 1, Len(filename))
         IN  IF tail[1] = 46 /\ EqIgnoreAsciiCase(extension, Tail(tail))
             THEN Some(ret)
             ELSE None

\* The byte test of validate_name's match (the same in main.rs and
\* server.rs).  The patterns `b'0' .. b'9'`,
\* `b'A' .. b'Z'` and `b'a' .. b'z'` are half-open ranges: the upper end
\* is excluded.
\* (variant: the digit range written from b'-', which lets b'/' through)
AcceptedByteSlashRange(b) ==
    \/ b >= 45 /\ b < 57
    \/ b >= 65 /\ b < 90
    \/ b >= 97 /\ b < 122
    \/ b \in {95, 46, 45}

AcceptedByte(b) ==
    \/ b >= 48 /\ b < 57
    \/ b >= 65 /\ b < 90
    \/ b >= 97 /\ b < 122
    \/ b \in {95, 46, 45}

\* Result<&str, DubiousFilename>
Ok(x) == [ok |-> TRUE, val |-> x]
Err(x) == [ok |-> FALSE, val |-> x]

validate_name(s) ==
    IF \A i \in 1..Len(s) : AcceptedByte(s[i]) THEN Ok(s) ELSE Err(s)

(***************************************************************************)
(* Ordering and sorting of names (String's Ord is byte-lexicographic)      *)
(***************************************************************************)
LexLess(a, b) ==
    \E i \in 1..(Len(b)) :
        /\ i <= Len(a) + 1
        /\ \A j \in 1..(i - 1) : a[j] = b[j]
        /\ (i = Len(a) + 1 \/ a[i] < b[i])

MinName(S) == CHOOSE x \in S : \A y \in S : x = y \/ LexLess(x, y)

RECURSIVE SortNames(_)
SortNames(S) ==
    IF S = {} THEN <<>>
    ELSE LET m == MinName(S) IN <<m>> \o SortNames(S \ {m})

(***************************************************************************)
(* Results and responses                                                   *)
(***************************************************************************)
\* HttpOkay::{File, Html, Jpeg} and HttpError::{Invalid, NotFound, Error}.
\* `cause` names the error that was converted, `body` is a sequence of
\* byte strings.
HttpOkayFile(body) == [variant |-> "File", cause |-> "", body |-> body]
HttpOkayHtml(body) == [variant |-> "Html", cause |-> "", body |-> body]
HttpOkayJpeg(body) == [variant |-> "Jpeg", cause |-> "", body |-> body]
HttpErrorInvalid == [variant |-> "Invalid", cause |-> "", body |-> <<>>]
HttpErrorNotFound == [variant |-> "NotFound", cause |-> "", body |-> <<>>]
HttpErrorError(cause) == [variant |-> "Error", cause |-> cause, body |-> <<>>]

\* impl From<$e> for HttpError, for each error type of the macro's uses.
FromIoError(kind) == HttpErrorError(kind)
FromUrlParseError == HttpErrorError("url::ParseError")
FromImageError(kind) == HttpErrorError(kind)
FromDubiousFilename == HttpErrorError("DubiousFilename")

\* The status code handle_requests answers with.
StatusOf(result) ==
    CASE result.variant \in {"File", "Html", "Jpeg"} -> 200
      [] result.variant = "Invalid" -> 400
      [] result.variant = "NotFound" -> 404
      [] OTHER -> 500

(***************************************************************************)
(* Params and Dimensions                                                   *)
(***************************************************************************)
Min(a, b) == IF a < b THEN a ELSE b

\* (variant: the height taken as given, without the 2048 cap)
get_dimensionsUncappedHeight(params) ==
    [w |-> Min(2048, IF IsSome(params.w) THEN Unwrap(params.w) ELSE 800),
     h |-> IF IsSome(params.h) THEN Unwrap(params.h) ELSE 600]

get_dimensions(params) ==
    [w |-> Min(2048, IF IsSome(params.w) THEN Unwrap(params.w) ELSE 800),
     h |-> Min(2048, IF IsSome(params.h) THEN Unwrap(params.h) ELSE 600)]

\* Dimensions as the byte string of its Display form, abstractly.
DimText(d) == <<d.w, d.h>>

(***************************************************************************)
(* State                                                                   *)
(***************************************************************************)
VARIABLES
    docs,        \* document_root: album directory name -> set of entry names
    thumbDirs,   \* thumbnail_root: the directories that exist
    thumbs,      \* thumbnail_root: <<dir, name>> -> contents of that file
    pc,          \* worker -> position inside handle_request / thumb
    req,         \* worker -> the request it is handling
    buf,         \* worker -> the Vec<u8> resize_jpeg returned to thumb
    last,        \* the request answered most recently, its answer, and
                 \* the names it passed to Path::join
    resizeRuns,  \* history: thumbnail key -> resize_jpeg calls made by thumb
    writeRuns,   \* history: thumbnail key -> file.write calls made by thumb
    firstAnswer, \* history: thumbnail key -> first answer to its .thumb URL
    vName,       \* input of the name-function check
    vResult,     \* its result
    vIn,         \* input of the router / Params checks
    vOut         \* its result

vars == <<docs, thumbDirs, thumbs, pc, req, buf, last,
          resizeRuns, writeRuns, firstAnswer, vName, vResult, vIn, vOut>>

serverVars == <<docs, thumbDirs, thumbs, pc, req, buf, last,
                resizeRuns, writeRuns, firstAnswer>>

(***************************************************************************)
(* The document tree                                                       *)
(***************************************************************************)
DirExists(dir) == dir \in DOMAIN docs
FileExists(dir, name) == DirExists(dir) /\ name \in docs[dir]

\* The bytes of document_root/dir/name, abstractly: one chunk naming it.
FileContents(dir, name) == << dir \o <<47>> \o name >>

\* What image::open + resize + JpegEncoder produce for a source and
\* dimensions: a byte string of two chunks, fixed by the source and d.
RenditionOf(dir, name, d) == << dir \o <<47>> \o name, DimText(d) >>

\* resize_jpeg: image::open fails on a missing source with an ImageError
\* wrapping the io::Error, which `?` converts with From<ImageError>.
resize_jpeg(dir, name, d) ==
    IF FileExists(dir, name)
    THEN [ok |-> TRUE, val |-> RenditionOf(dir, name, d)]
    ELSE [ok |-> FALSE, val |-> FromImageError("image::IoError(NotFound)")]

(***************************************************************************)
(* Album                                                                   *)
(***************************************************************************)
\* Album::new.  read_dir fails on a missing directory; the first entry
\* validate_name rejects aborts the listing; otherwise the entries are
\* classified and the two lists sorted.
AlbumNew(dir) ==
    IF ~DirExists(dir)
    THEN [ok |-> FALSE, err |-> FromIoError("io::NotFound")]
    ELSE IF \E n \in docs[dir] : ~validate_name(n).ok
    THEN [ok |-> FALSE, err |-> FromDubiousFilename]
    ELSE LET names == docs[dir] \ {Str_README_txt}
             isJpeg(n) == IsSome(remove_extension(n, Str_jpg))
         IN  [ok |-> TRUE,
              readme |-> IF Str_README_txt \in docs[dir]
                         THEN Some(Str_README_txt) ELSE None,
              jpegs |-> SortNames({n \in names : isJpeg(n)}),
              others |-> SortNames({n \in names : ~isJpeg(n)})]

(***************************************************************************)
(* PhotoServer::index, rescale, frame                                      *)
(***************************************************************************)
\* HashMap::insert
Insert(m, k, v) == [x \in (DOMAIN m) \cup {k} |-> IF x = k THEN v ELSE m[x]]

\* (variant: the walk starts from the first path instead of the last)
InitialPrevFirst(paths) == paths[1]

\* `paths.last()`, the value `prev` starts from.
InitialPrev(paths) == paths[Len(paths)]

\* The loop of frame(): previouses[p] = prev; nexts[prev] = p; prev = p.
RECURSIVE FrameLoop(_, _, _, _, _)
FrameLoop(paths, i, prev, previouses, nexts) ==
    IF i > Len(paths)
    THEN [previouses |-> previouses, nexts |-> nexts]
    ELSE FrameLoop(paths, i + 1, paths[i],
                   Insert(previouses, paths[i], prev),
                   Insert(nexts, prev, paths[i]))

\* The result of index(), with the names it joins onto document_root.
Index(dir_name, params) ==
    LET album == AlbumNew(dir_name)
    IN  IF ~album.ok
        THEN [result |-> album.err, joins |-> {dir_name}]
        ELSE [result |-> HttpOkayHtml(
                  <<dir_name, DimText(get_dimensions(params))>>
                  \o (IF IsSome(album.readme)
                      THEN FileContents(dir_name, Unwrap(album.readme))
                      ELSE <<>>)
                  \o album.jpegs \o << <<>> >> \o album.others),
              joins |-> {dir_name}
                        \cup (IF IsSome(album.readme)
                              THEN {Unwrap(album.readme)} ELSE {})]

Rescale(dir_name, leaf_name, params) ==
    LET r == resize_jpeg(dir_name, leaf_name, get_dimensions(params))
    IN  [result |-> IF r.ok THEN HttpOkayJpeg(r.val) ELSE r.val,
         joins |-> {dir_name, leaf_name}]

\* frame(): the page is represented by the values interpolated into it,
\* <<dir_name, leaf_name, previous, next, dimensions>>.
Frame(dir_name, leaf_name, params) ==
    LET album == AlbumNew(dir_name)
    IN  IF ~album.ok
        THEN [result |-> album.err, joins |-> {dir_name}]
        ELSE LET paths == album.jpegs
             IN  IF Len(paths) = 0
                 THEN [result |-> HttpErrorNotFound, joins |-> {dir_name}]
                 ELSE LET maps == FrameLoop(paths, 1, InitialPrev(paths),
                                            <<>>, <<>>)
                      IN  IF leaf_name \notin DOMAIN maps.previouses
                             \/ leaf_name \notin DOMAIN maps.nexts
                          THEN [result |-> HttpErrorNotFound,
                                joins |-> {dir_name}]
                          ELSE [result |-> HttpOkayHtml(
                                    <<dir_name, leaf_name,
                                      maps.previouses[leaf_name],
                                      maps.nexts[leaf_name],
                                      DimText(get_dimensions(params))>>),
                                joins |-> {dir_name}]

StaticFile(dir_name, leaf_name) ==
    [result |-> IF FileExists(dir_name, leaf_name)
                THEN HttpOkayFile(FileContents(dir_name, leaf_name))
                ELSE FromIoError("io::NotFound"),
     joins |-> {dir_name, leaf_name}]

(***************************************************************************)
(* Requests and routing                                                    *)
(***************************************************************************)
\* A request as handle_request sees it: the method, whether
\* base_url.join(request.url()) succeeds, the percent-decoded path
\* segments of the joined URL, and the Params collected from the query.
Request(method, urlOk, path, w, h) ==
    [method |-> method, urlOk |-> urlOk, path |-> path,
     params |-> [w |-> w, h |-> h]]

NoRequest == Request("", FALSE, <<>>, None, None)

\* `if let Some(last) = path.last() { if "" == last { path.pop(); } }`
PopTrailingEmpty(path) ==
    IF Len(path) > 0 /\ path[Len(path)] = <<>>
    THEN SubSeq(path, 1, Len(path) - 1)
    ELSE path

\* The dispatch of handle_request, as the route it takes.  (path_segments()
\* is None only for a cannot-be-a-base URL, which a join onto an http base
\* URL never yields.)
Route(r) ==
    LET path == PopTrailingEmpty(r.path)
        none == <<>>
    IN  IF r.method # "GET" THEN [kind |-> "BadMethod", dir |-> none, leaf |-> none]
        ELSE IF ~r.urlOk THEN [kind |-> "BadUrl", dir |-> none, leaf |-> none]
        ELSE IF Len(path) = 0 THEN [kind |-> "NoAlbum", dir |-> none, leaf |-> none]
        ELSE IF Len(path) = 1 THEN [kind |-> "Index", dir |-> path[1], leaf |-> none]
        ELSE LET dir_name == path[1]
                 leaf_name == path[2]
                 static == [kind |-> "StaticFile", dir |-> dir_name, leaf |-> leaf_name]
                 html == remove_extension(leaf_name, Str_html)
                 thumb == remove_extension(leaf_name, Str_thumb)
             IN  IF IsSome(remove_extension(leaf_name, Str_jpg))
                 THEN IF IsSome(r.params.w) \/ IsSome(r.params.h)
                      THEN [kind |-> "Rescale", dir |-> dir_name, leaf |-> leaf_name]
                      ELSE static
                 ELSE IF IsSome(html)
                 THEN IF IsSome(remove_extension(Unwrap(html), Str_jpg))
                      THEN [kind |-> "Frame", dir |-> dir_name, leaf |-> Unwrap(html)]
                      ELSE static
                 ELSE IF IsSome(thumb)
                 THEN IF IsSome(remove_extension(Unwrap(thumb), Str_jpg))
                      THEN [kind |-> "Thumb", dir |-> dir_name, leaf |-> Unwrap(thumb)]
                      ELSE static
                 ELSE static

(***************************************************************************)
(* The inputs: document trees and requests                                 *)
(***************************************************************************)
Dot(base, ext) == base \o <<46>> \o ext

Name_a == <<97>>
Name_m == <<109>>
Name_dollar == <<36>>
Name_a_jpg == Dot(<<97>>, Str_jpg)
Name_b_JPG == Dot(<<98>>, <<74, 80, 71>>)
Name_c_jpg == Dot(<<99>>, Str_jpg)
Name_q_jpg == Dot(<<113>>, Str_jpg)
Name_z_jpg == Dot(<<122>>, Str_jpg)
Name_n_txt == Dot(<<110>>, <<116, 120, 116>>)

\* The contents album `a` may have; no other album exists.
AlbumContents ==
    { {},
      {Name_a_jpg},
      {Name_a_jpg, Name_b_JPG},
      {Name_a_jpg, Name_b_JPG, Name_c_jpg},
      {Name_a_jpg, Name_n_txt, Str_README_txt},
      {Name_a_jpg, Name_z_jpg},
      {Name_a_jpg, Name_dollar} }

Leaves ==
    { Name_a_jpg, Name_c_jpg, Name_q_jpg, Name_n_txt, Name_dollar,
      Dot(Name_a_jpg, Str_html), Dot(Name_b_JPG, Str_html),
      Dot(Name_c_jpg, Str_html), Dot(Name_q_jpg, Str_html),
      Dot(Name_a_jpg, Str_thumb) }

Paths ==
    { << <<>> >>, <<Name_a>>, <<Name_a, <<>> >>, <<Name_m>>, <<Name_dollar>>,
      <<Name_m, Dot(Name_a_jpg, Str_thumb)>>,
      <<Name_a, Name_a_jpg, Name_a_jpg>> }
    \cup { <<Name_a, leaf>> : leaf \in Leaves }

Requests ==
    { Request("GET", TRUE, p, None, None) : p \in Paths }
    \cup { Request("GET", TRUE, p, Some(3000), None) :
             p \in { <<Name_a>>, <<Name_a, Name_a_jpg>>, <<Name_a, Name_q_jpg>>,
                     <<Name_a, Dot(Name_a_jpg, Str_html)>> } }
    \cup { Request("GET", TRUE, <<Name_a, Name_a_jpg>>, None, Some(0)),
           Request("POST", TRUE, <<Name_a>>, None, None),
           Request("GET", FALSE, <<>>, None, None) }

\* The route of every request of the universe.
RouteOf == [r \in Requests |-> Route(r)]

\* A thumbnail is cached under thumbnail_root/dir_name/leaf_name.
KeyOf(r) == <<RouteOf[r].dir, RouteOf[r].leaf>>

ThumbKeys == { KeyOf(r) : r \in {x \in Requests : RouteOf[x].kind = "Thumb"} }

(***************************************************************************)
(* Initial state                                                           *)
(***************************************************************************)
NoResult == [variant |-> "", cause |-> "", body |-> <<>>]
NoAnswer == [req |-> NoRequest, kind |-> "", key |-> << <<>>, <<>> >>,
             result |-> NoResult, status |-> 0, joins |-> {}]
NotValidated == [done |-> FALSE, ok |-> FALSE, val |-> <<>>]
NotApplied == [done |-> FALSE, val |-> <<>>]

ServerInit ==
    /\ docs \in { (Name_a :> c) : c \in AlbumContents }
    /\ thumbDirs = {}
    /\ thumbs = [k \in ThumbKeys |-> None]
    /\ pc = [w \in Workers |-> "idle"]
    /\ req = [w \in Workers |-> NoRequest]
    /\ buf = [w \in Workers |-> <<>>]
    /\ last = NoAnswer
    /\ resizeRuns = [k \in ThumbKeys |-> 0]
    /\ writeRuns = [k \in ThumbKeys |-> 0]
    /\ firstAnswer = [k \in ThumbKeys |-> None]

Init ==
    /\ ServerInit
    /\ vName = <<>>
    /\ vResult = NotValidated
    /\ vIn = <<>>
    /\ vOut = NotApplied

(***************************************************************************)
(* handle_request + the arm of handle_requests that answers it             *)
(***************************************************************************)
Answer(r, result, joins) ==
    [req |-> r, kind |-> RouteOf[r].kind, key |-> KeyOf(r),
     result |-> result, status |-> StatusOf(result), joins |-> joins]

Idle == \E w \in Workers : pc[w] = "idle"

\* A handler that touches no shared state: the request is read, handled
\* and answered in one step.
Answered(r, out) ==
    /\ last' = Answer(r, out.result, out.joins)
    /\ UNCHANGED <<docs, thumbDirs, thumbs, pc, req, buf,
                   resizeRuns, writeRuns, firstAnswer, vName, vResult, vIn, vOut>>

\* Early returns: a method other than GET, a URL that does not join onto
\* base_url, a path with no first segment.
Reject(r) ==
    /\ Idle
    /\ RouteOf[r].kind \in {"BadMethod", "BadUrl", "NoAlbum"}
    /\ Answered(r, [result |-> CASE RouteOf[r].kind = "BadMethod" -> HttpErrorInvalid
                                 [] RouteOf[r].kind = "BadUrl" -> FromUrlParseError
                                 [] OTHER -> HttpErrorInvalid,
                    joins |-> {}])

ServeIndex(r) ==
    /\ Idle
    /\ RouteOf[r].kind = "Index"
    /\ Answered(r, Index(RouteOf[r].dir, r.params))

ServeRescale(r) ==
    /\ Idle
    /\ RouteOf[r].kind = "Rescale"
    /\ Answered(r, Rescale(RouteOf[r].dir, RouteOf[r].leaf, r.params))

ServeFrame(r) ==
    /\ Idle
    /\ RouteOf[r].kind = "Frame"
    /\ Answered(r, Frame(RouteOf[r].dir, RouteOf[r].leaf, r.params))

ServeStaticFile(r) ==
    /\ Idle
    /\ RouteOf[r].kind = "StaticFile"
    /\ Answered(r, StaticFile(RouteOf[r].dir, RouteOf[r].leaf))

(***************************************************************************)
(* PhotoServer::thumb, split at the system calls that touch the cache file *)
(***************************************************************************)
\* (variant: File::create, which opens an existing file and truncates it)
CreateTruncating(file) == [ok |-> TRUE, file |-> Some(<<>>)]

\* File::create_new: creates the file empty, or fails if it exists.
CreateNew(file) ==
    IF file = None
    THEN [ok |-> TRUE, file |-> Some(<<>>)]
    ELSE [ok |-> FALSE, file |-> file]

\* thumb() returns: the request is answered and the worker is free again.
\* dir_name and leaf_name were joined onto thumbnail_root on the way.
Finish(w, result) ==
    LET key == KeyOf(req[w])
    IN  /\ last' = Answer(req[w], result, {key[1], key[2]})
        /\ firstAnswer' = IF IsSome(firstAnswer[key]) THEN firstAnswer
                          ELSE [firstAnswer EXCEPT ![key] = Some(result)]
        /\ pc' = [pc EXCEPT ![w] = "idle"]
        /\ req' = [req EXCEPT ![w] = NoRequest]
        /\ buf' = [buf EXCEPT ![w] = <<>>]

\* Dispatch to thumb(), create_dir_all(thumbnail_root/dir_name) and
\* File::create_new(thumbnail_dir/leaf_name).  create_dir_all only adds a
\* directory that no other request removes, so it is taken together with
\* the create_new that follows it.
ThumbBegin(w, r) ==
    /\ pc[w] = "idle"
    /\ RouteOf[r].kind = "Thumb"
    /\ LET key == KeyOf(r)
           c == CreateNew(thumbs[key])
       IN  /\ thumbDirs' = thumbDirs \cup {key[1]}
           /\ thumbs' = [thumbs EXCEPT ![key] = c.file]
           /\ pc' = [pc EXCEPT ![w] = IF c.ok THEN "resize" ELSE "open"]
    /\ req' = [req EXCEPT ![w] = r]
    /\ UNCHANGED <<docs, buf, last, resizeRuns, writeRuns, firstAnswer,
                   vName, vResult, vIn, vOut>>

\* Self::resize_jpeg(&jpeg_name, Dimensions {w: 128, h: 96})?
ThumbResize(w) ==
    /\ pc[w] = "resize"
    /\ LET key == KeyOf(req[w])
           r == resize_jpeg(key[1], key[2], [w |-> 128, h |-> 96])
       IN  /\ resizeRuns' = [resizeRuns EXCEPT ![key] = @ + 1]
           /\ IF r.ok
              THEN /\ buf' = [buf EXCEPT ![w] = r.val]
                   /\ pc' = [pc EXCEPT ![w] = "write"]
                   /\ UNCHANGED <<req, last, firstAnswer>>
              ELSE Finish(w, r.val)
    /\ UNCHANGED <<docs, thumbDirs, thumbs, writeRuns, vName, vResult, vIn, vOut>>

\* file.write(&data)?: Write::write may write any non-empty prefix of the
\* buffer; it lands at the start of the file, where this handle stands.
ThumbWrite(w) ==
    /\ pc[w] = "write"
    /\ LET key == KeyOf(req[w])
           old == Unwrap(thumbs[key])
       IN  \E n \in 1..Len(buf[w]) :
               thumbs' = [thumbs EXCEPT ![key] =
                             Some(SubSeq(buf[w], 1, n)
                                  \o SubSeq(old, n + 1, Len(old)))]
    /\ writeRuns' = [writeRuns EXCEPT ![KeyOf(req[w])] = @ + 1]
    /\ pc' = [pc EXCEPT ![w] = "open"]
    /\ UNCHANGED <<docs, thumbDirs, req, buf, last, resizeRuns, firstAnswer,
                   vName, vResult, vIn, vOut>>

\* Ok(HttpOkay::File(File::open(&thumbnail_name)?)), answered with
\* Response::from_file: the body is what the file holds now.
ThumbOpen(w) ==
    /\ pc[w] = "open"
    /\ Finish(w, HttpOkayFile(Unwrap(thumbs[KeyOf(req[w])])))
    /\ UNCHANGED <<docs, thumbDirs, thumbs, resizeRuns, writeRuns,
                   vName, vResult, vIn, vOut>>

Next ==
    \/ \E r \in Requests : Reject(r)
    \/ \E r \in Requests : ServeIndex(r)
    \/ \E r \in Requests : ServeRescale(r)
    \/ \E r \in Requests : ServeFrame(r)
    \/ \E r \in Requests : ServeStaticFile(r)
    \/ \E w \in Workers, r \in Requests : ThumbBegin(w, r)
    \/ \E w \in Workers : ThumbResize(w)
    \/ \E w \in Workers : ThumbWrite(w)
    \/ \E w \in Workers : ThumbOpen(w)

Spec == Init /\ [][Next]_vars

(***************************************************************************)
(* validate_name on its own                                                *)
(***************************************************************************)
\* Bytes on and next to every edge of validate_name's patterns.
SampleBytes ==
    {0, 36, 44, 45, 46, 47, 48, 56, 57, 58, 64, 65, 89, 90, 91,
     94, 95, 96, 97, 121, 122, 123}

RECURSIVE NamesUpTo(_, _)
NamesUpTo(bytes, n) ==
    IF n = 0 THEN {<<>>}
    ELSE LET shorter == NamesUpTo(bytes, n - 1)
         IN  shorter \cup {Append(s, b) : s \in shorter, b \in bytes}

\* Every one-byte name, and every name over SampleBytes up to MaxNameLen.
Names == NamesUpTo(SampleBytes, MaxNameLen) \cup {<<b>> : b \in Byte}

InitNames ==
    /\ ServerInit
    /\ docs = (Name_a :> {Name_a_jpg})
    /\ vName \in Names
    /\ vResult = NotValidated
    /\ vIn = <<>>
    /\ vOut = NotApplied

Validate ==
    /\ ~vResult.done
    /\ LET r == validate_name(vName)
       IN  vResult' = [done |-> TRUE, ok |-> r.ok, val |-> r.val]
    /\ UNCHANGED <<vName, vIn, vOut, serverVars>>

NextNames == Validate

SpecNames == InitNames /\ [][NextNames]_vars

(***************************************************************************)
(* The dispatch of handle_request on its own                               *)
(***************************************************************************)
Str_JPG == <<74, 80, 71>>
Str_HTML == <<72, 84, 77, 76>>
Str_Thumb == <<84, 104, 117, 109, 98>>
Str_txt == <<116, 120, 116>>

\* Leaf names: an empty or one-letter base followed by every chain of
\* extensions the dispatch tells apart, in both cases.
RouteLeaves ==
    LET bases == {<<>>, <<97>>}
        jpgs == {Dot(b, e) : b \in bases, e \in {Str_jpg, Str_JPG}}
        txts == {Dot(b, Str_txt) : b \in bases}
    IN  jpgs \cup txts \cup bases \cup {Str_jpg}
        \cup {Dot(j, e) : j \in jpgs \cup txts \cup {Str_jpg},
                          e \in {Str_html, Str_HTML, Str_thumb, Str_Thumb}}
        \cup {Dot(b, e) : b \in bases, e \in {Str_html, Str_thumb}}
        \cup {Dot(Dot(j, Str_html), Str_thumb) : j \in jpgs}
        \cup {Dot(j, Str_jpg) : j \in jpgs}

\* Paths as path_segments() yields them: an album, then nothing, a
\* trailing slash, a leaf, a leaf with a trailing slash, or a leaf and a
\* further segment.
RoutePaths ==
    {<<Name_a>>, <<Name_a, <<>> >>}
    \cup {<<Name_a, leaf>> : leaf \in RouteLeaves}
    \cup {<<Name_a, leaf, <<>> >> : leaf \in RouteLeaves}
    \cup {<<Name_a, leaf, Name_n_txt>> : leaf \in RouteLeaves}

RouteRequests ==
    {Request("GET", TRUE, p, w, h) :
        p \in RoutePaths, w \in {None, Some(10)}, h \in {None, Some(0)}}

InitRoute ==
    /\ ServerInit
    /\ docs = (Name_a :> {Name_a_jpg})
    /\ vName = <<>>
    /\ vResult = NotValidated
    /\ vIn \in RouteRequests
    /\ vOut = NotApplied

Classify ==
    /\ ~vOut.done
    /\ vOut' = [done |-> TRUE, val |-> Route(vIn)]
    /\ UNCHANGED <<vIn, vName, vResult, serverVars>>

NextRoute == Classify

SpecRoute == InitRoute /\ [][NextRoute]_vars

(***************************************************************************)
(* Params::from_iter and get_dimensions on their own                       *)
(***************************************************************************)
\* A query value after percent-decoding: text that is no number, the
\* decimal text of n, or the decimal text of a number above u32::MAX.
Garbage == [text |-> "garbage", n |-> 0]
Numeral(n) == [text |-> "number", n |-> n]
TooBig == [text |-> "too big", n |-> 0]

\* parse_u32: trim, parse::<u32>, errors mapped to None.
parse_u32(value) == IF value.text = "number" THEN Some(value.n) ELSE None

\* Params::from_iter: the pairs in order, a later `w` or `h` replacing an
\* earlier one, other keys ignored.
RECURSIVE from_iter(_, _)
from_iter(iter, ret) ==
    IF iter = <<>> THEN ret
    ELSE LET key == Head(iter)[1]
             value == Head(iter)[2]
         IN  from_iter(Tail(iter),
                 IF key = "w" THEN [ret EXCEPT !.w = parse_u32(value)]
                 ELSE IF key = "h" THEN [ret EXCEPT !.h = parse_u32(value)]
                 ELSE ret)

\* Params::default()
ParamsDefault == [w |-> None, h |-> None]

\* Values on both sides of the cap and of the defaults.  The greatest is
\* the largest integer the checker represents; get_dimensions only takes
\* a minimum, so values up to u32::MAX behave as it does.
QueryValues ==
    {Garbage, TooBig}
    \cup {Numeral(n) : n \in {0, 1, 10, 2048, 2049, 3000, 2147483647}}

QueryPairs == {<<k, v>> : k \in {"w", "h", "x"}, v \in QueryValues}

RECURSIVE QueriesUpTo(_)
QueriesUpTo(n) ==
    IF n = 0 THEN {<<>>}
    ELSE LET shorter == QueriesUpTo(n - 1)
         IN  shorter \cup {Append(q, kv) : q \in shorter, kv \in QueryPairs}

InitParams ==
    /\ ServerInit
    /\ docs = (Name_a :> {Name_a_jpg})
    /\ vName = <<>>
    /\ vResult = NotValidated
    /\ vIn \in QueriesUpTo(MaxQuery)
    /\ vOut = NotApplied

Derive ==
    /\ ~vOut.done
    /\ LET params == from_iter(vIn, ParamsDefault)
       IN  vOut' = [done |-> TRUE,
                    val |-> [params |-> params, d |-> get_dimensions(params)]]
    /\ UNCHANGED <<vIn, vName, vResult, serverVars>>

NextParams == Derive

SpecParams == InitParams /\ [][NextParams]_vars

(***************************************************************************)
(* Properties                                                              *)
(***************************************************************************)
\* The bytes the documentation of validate_name allows: letters, digits
\* and `_`, `.`, `-`.
DocumentedByte(b) ==
    \/ b >= 48 /\ b <= 57
    \/ b >= 65 /\ b <= 90
    \/ b >= 97 /\ b <= 122
    \/ b \in {95, 46, 45}

DocumentedSafe(name) == \A i \in 1..Len(name) : DocumentedByte(name[i])

ThumbDimensions == [w |-> 128, h |-> 96]

\* The workers that hold the cache file of `key` open for writing.
Generating(key) ==
    {w \in Workers : pc[w] \in {"resize", "write"} /\ KeyOf(req[w]) = key}

\* C1: every name an answered request joined onto document_root or
\* thumbnail_root passes validate_name; a request with a segment that
\* fails validation joins nothing of that name.
C1_JoinedNamesAreValidated ==
    \A n \in last.joins : validate_name(n).ok

\* C2: validate_name accepts a name, returning it unchanged, if and only if
\* every byte is a letter A..Z or a..z, a digit 0..9, `_`, `.` or `-`; every
\* other name fails with DubiousFilename.
C2_AcceptsExactlyTheDocumentedBytes ==
    vResult.done =>
        /\ vResult.ok <=> DocumentedSafe(vName)
        /\ vResult.val = vName

\* C3 as stated: validate_name fails for the name `..` and for every
\* name that contains `/` or a NUL byte.
C3_RejectsDotDotAndSeparators ==
    (vResult.done
     /\ (vName = <<46, 46>> \/ \E i \in 1..Len(vName) : vName[i] \in {47, 0}))
        => ~vResult.ok

\* C3 as amended: validate_name fails for every name that contains `/` or
\* a NUL byte; the name `..` consists of accepted bytes only and is
\* accepted and returned unchanged.
C3_RejectsSeparatorsAcceptsDotDot ==
    vResult.done =>
        /\ (\E i \in 1..Len(vName) : vName[i] \in {47, 0}) => ~vResult.ok
        /\ vName = <<46, 46>> => (vResult.ok /\ vResult.val = vName)

\* A two-byte name with a `/` in it has been rejected.
C3_Witness ==
    /\ vResult.done
    /\ ~vResult.ok
    /\ Len(vName) = 2
    /\ vName[2] = 47

\* C4: for every thumbnail key, however many requests for it interleave,
\* resize_jpeg runs at most once and the cache file is written at most
\* once; at most one request is ever generating, and it is the one that
\* created the file.
C4_AtMostOneGeneration ==
    \A key \in ThumbKeys :
        /\ resizeRuns[key] <= 1
        /\ writeRuns[key] <= 1
        /\ Cardinality(Generating(key)) <= 1
        /\ \A w \in Generating(key) :
               /\ pc[w] = "resize" => resizeRuns[key] = 0
               /\ pc[w] = "write" => writeRuns[key] = 0

\* Two requests for one key are in progress at once: the one that created
\* the file has run resize_jpeg and is about to write, the other found the
\* file and skipped generation.
C4_Witness ==
    \E key \in ThumbKeys : \E w1, w2 \in Workers :
        /\ pc[w1] = "write" /\ KeyOf(req[w1]) = key
        /\ pc[w2] = "open" /\ KeyOf(req[w2]) = key
        /\ resizeRuns[key] = 1

C6_ThumbAnswersAreIdentical ==
    last.kind = "Thumb" => firstAnswer[last.key] = Some(last.result)

\* C7: a .thumb request whose source document_root/album/name does not
\* exist is answered 404.
C7_MissingSourceIsNotFound ==
    (last.kind = "Thumb" /\ ~FileExists(last.key[1], last.key[2]))
        => last.status = 404

\* C8: on every route, a missing album directory or a missing file is
\* answered 404.
C8_MissingIsNotFound ==
    /\ (last.kind \in {"Index", "Frame"} /\ ~DirExists(last.key[1]))
           => last.status = 404
    /\ (last.kind \in {"Rescale", "StaticFile", "Thumb"}
        /\ ~FileExists(last.key[1], last.key[2]))
           => last.status = 404

\* C9: a request with a method other than GET, with a URL that cannot be
\* parsed or has no album segment, or with a dubious name among its URL
\* segments or the entries of the directory it lists, is answered 400.
C9_MalformedIsInvalid ==
    LET segments == {last.req.path[i] : i \in 1..Len(last.req.path)}
        listed == IF last.kind \in {"Index", "Frame"} /\ DirExists(last.key[1])
                  THEN docs[last.key[1]] ELSE {}
    IN  (/\ last.status # 0
         /\ \/ last.kind \in {"BadMethod", "BadUrl", "NoAlbum"}
            \/ \E n \in segments \cup listed : ~DocumentedSafe(n))
            => last.status = 400

\* The greatest and the least name of a non-empty set.
MaxName(S) == CHOOSE x \in S : \A y \in S : x = y \/ LexLess(y, x)
LeastName(S) == CHOOSE x \in S : \A y \in S : x = y \/ LexLess(x, y)

\* The jpeg names of an album.
Jpegs(dir) == {n \in docs[dir] : IsSome(remove_extension(n, Str_jpg))}

EndsWithAnyCase(name, suffix) ==
    /\ Len(name) >= Len(suffix)
    /\ \A i \in 1..Len(suffix) :
           ToAsciiLower(name[Len(name) - Len(suffix) + i]) = ToAsciiLower(suffix[i])

\* `name` ends with `.jpg` in any case followed by `suffix` exactly.
EndsWithJpgThen(name, suffix) ==
    /\ Len(name) >= Len(suffix)
    /\ SubSeq(name, Len(name) - Len(suffix) + 1, Len(name)) = suffix
    /\ EndsWithAnyCase(SubSeq(name, 1, Len(name) - Len(suffix)), <<46>> \o Str_jpg)

DropLast(name, n) == SubSeq(name, 1, Len(name) - n)

\* The segments of a request's path, without a trailing empty one.
Segments(r) ==
    IF Len(r.path) > 0 /\ r.path[Len(r.path)] = <<>>
    THEN DropLast(r.path, 1) ELSE r.path

\* The route the claim gives a request, with `isHtml` and `isThumb` the
\* tests it applies to the leaf for the frame and thumbnail suffixes.
ClaimedRoute(r, isHtml(_), isThumb(_)) ==
    LET path == Segments(r)
        dir == path[1]
        leaf == path[2]
        sized == IsSome(r.params.w) \/ IsSome(r.params.h)
    IN  IF Len(path) = 1
        THEN [kind |-> "Index", dir |-> dir, leaf |-> <<>>]
        ELSE IF EndsWithAnyCase(leaf, <<46>> \o Str_jpg) /\ sized
        THEN [kind |-> "Rescale", dir |-> dir, leaf |-> leaf]
        ELSE IF isHtml(leaf)
        THEN [kind |-> "Frame", dir |-> dir, leaf |-> DropLast(leaf, 5)]
        ELSE IF isThumb(leaf)
        THEN [kind |-> "Thumb", dir |-> dir, leaf |-> DropLast(leaf, 6)]
        ELSE [kind |-> "StaticFile", dir |-> dir, leaf |-> leaf]

\* A GET request whose URL parses and has a valid album segment was routed.
Routed ==
    /\ vOut.done
    /\ vIn.method = "GET" /\ vIn.urlOk
    /\ Len(Segments(vIn)) >= 1
    /\ validate_name(Segments(vIn)[1]).ok

\* C11 as stated: no leaf -> Index; leaf ending `.jpg` in any case with w
\* or h parsed -> Rescale; leaf ending `.jpg.html` -> Frame of the `.jpg`
\* name; leaf ending `.jpg.thumb` -> Thumb of the `.jpg` name; every other
\* leaf -> StaticFile.
C11_RouteBySuffix ==
    Routed =>
        vOut.val = ClaimedRoute(vIn,
                       LAMBDA l : EndsWithJpgThen(l, <<46>> \o Str_html),
                       LAMBDA l : EndsWithJpgThen(l, <<46>> \o Str_thumb))

\* C11 as amended: the same, with the `.html` and `.thumb` suffixes matched
\* in any ASCII case as the `.jpg` suffix is, so that `a.jpg.HTML` is a
\* Frame and `a.jpg.Thumb` a Thumb rather than static files.
C11_RouteBySuffixAnyCase ==
    Routed =>
        vOut.val = ClaimedRoute(vIn,
                       LAMBDA l : EndsWithAnyCase(l, <<46>> \o Str_jpg \o <<46>> \o Str_html),
                       LAMBDA l : EndsWithAnyCase(l, <<46>> \o Str_jpg \o <<46>> \o Str_thumb))

\* An upper-case `.JPG` leaf with a size parameter was routed to Rescale.
C11_Witness ==
    /\ Routed
    /\ vIn.path = <<Name_a, Dot(<<97>>, Str_JPG)>>
    /\ IsSome(vIn.params.h)
    /\ vOut.val.kind = "Rescale"

\* What the claim derives from one optional parameter.
ClaimedDimension(o, default) ==
    IF ~IsSome(o) THEN default
    ELSE IF Unwrap(o) > 2048 THEN 2048 ELSE Unwrap(o)

\* C12 as stated: for every Params, get_dimensions yields 1 <= w <= 2048
\* and 1 <= h <= 2048, a missing w becoming 800, a missing h 600 and a
\* present value v min(v, 2048).
C12_DimensionsWithinOneTo2048 ==
    vOut.done =>
        /\ vOut.val.d.w = ClaimedDimension(vOut.val.params.w, 800)
        /\ vOut.val.d.h = ClaimedDimension(vOut.val.params.h, 600)
        /\ 1 <= vOut.val.d.w /\ vOut.val.d.w <= 2048
        /\ 1 <= vOut.val.d.h /\ vOut.val.d.h <= 2048

\* C12 as amended: get_dimensions yields 0 <= w <= 2048 and
\* 0 <= h <= 2048, a missing w becoming 800, a missing h 600 and a present
\* value v min(v, 2048); a dimension is 0 exactly when its parameter is
\* present and 0.
C12_DimensionsWithinZeroTo2048 ==
    vOut.done =>
        /\ vOut.val.d.w = ClaimedDimension(vOut.val.params.w, 800)
        /\ vOut.val.d.h = ClaimedDimension(vOut.val.params.h, 600)
        /\ 0 <= vOut.val.d.w /\ vOut.val.d.w <= 2048
        /\ 0 <= vOut.val.d.h /\ vOut.val.d.h <= 2048
        /\ vOut.val.d.w = 0 <=> vOut.val.params.w = Some(0)
        /\ vOut.val.d.h = 0 <=> vOut.val.params.h = Some(0)

\* Params{w: Some(3000), h: Some(10)} gave Dimensions{2048, 10}.
C12_Witness ==
    /\ vOut.done
    /\ vOut.val.params = [w |-> Some(3000), h |-> Some(10)]
    /\ vOut.val.d = [w |-> 2048, h |-> 10]

\* The workers that are handling a thumbnail request for `key`.
InProgress(key) == {w \in Workers : pc[w] # "idle" /\ KeyOf(req[w]) = key}

\* C13: whenever no thumbnail request for a key is in progress, its cache
\* file either does not exist or holds the complete rendition of the
\* source, never an empty or truncated one.
C13_CacheFileAbsentOrComplete ==
    \A key \in ThumbKeys :
        InProgress(key) = {}
            => \/ thumbs[key] = None
               \/ thumbs[key] = Some(RenditionOf(key[1], key[2], ThumbDimensions))

====
